---------------------------- MODULE Spec2Model ----------------------------
(***************************************************************************)
(* A model of the UDP password generator: the interactive client           *)
(* (UDP_client.c, with its validators in libs/password/password.c), the    *)
(* server (UDP_server.c, with its generators in libs/password/password.c)  *)
(* and the datagram channel between them.                                  *)
(*                                                                         *)
(* Characters are their ASCII codes and C strings are sequences of codes   *)
(* without the terminating NUL.  A fixed-size char array that the code     *)
(* indexes (the password field) is a sequence of bytes of the array's      *)
(* size; a byte nobody has written yet is Indet.                           *)
(***************************************************************************)
EXTENDS Integers, Sequences, FiniteSets, TLC

(***************************************************************************)
(* Program constants                                                       *)
(***************************************************************************)
BUFFER_SIZE == 1024
MAX_PASSWORD_LENGTH == 32
MIN_PASSWORD_LENGTH == 6

\* sizeof(PasswordRequest): char type; char length[BUFFER_SIZE]
REQUEST_SIZE == 1 + BUFFER_SIZE
\* sizeof(PasswordResponse): char password[MAX_PASSWORD_LENGTH + 1]
RESPONSE_SIZE == MAX_PASSWORD_LENGTH + 1

INT_MAX == 2147483647
INT_MIN == (-2147483647) - 1

(***************************************************************************)
(* Bounds of the model                                                     *)
(***************************************************************************)
\* rand() is modelled as a linear congruential stream over 0 .. RandMod - 1
RandMod == 151
\* requests the client may send in one run
MaxRequests == 2
\* datagrams hosts other than the client and the server may inject
MaxForeign == 1
\* datagrams the server may receive in one run
MaxServed == 2
\* requests the clients of the server send in all (several clients)
MaxPeerSends == 3
\* duplications by the network in a run
MaxDup == 1

(***************************************************************************)
(* Characters and C strings                                                *)
(***************************************************************************)
NUL == 0
\* a byte of an object that has not been written (its value is indeterminate)
Indet == -1
\* a char array none of whose bytes has been written, read as a string
IndetString == <<Indet>>

isdigit(c) == c \in 48..57
isspace(c) == c \in {32, 9, 10, 11, 12, 13}
tolower(c) == IF c \in 65..90 THEN c + 32 ELSE c

Digits == 48..57
LowerLetters == 97..122
UpperLetters == 65..90

Range(s) == {s[i] : i \in 1..Len(s)}

RECURSIVE SkipSpace(_)
SkipSpace(s) ==
    IF s # <<>> /\ isspace(Head(s)) THEN SkipSpace(Tail(s)) ELSE s

\* the longest prefix of s without white space (what %s converts)
RECURSIVE Token(_)
Token(s) ==
    IF s = <<>> \/ isspace(Head(s)) THEN <<>>
    ELSE <<Head(s)>> \o Token(Tail(s))

\* the longest prefix of s made of digits
DigitPrefix(s) ==
    IF \A i \in 1..Len(s) : isdigit(s[i]) THEN s
    ELSE LET k == CHOOSE i \in 1..Len(s) :
                     ~isdigit(s[i]) /\ \A j \in 1..(i - 1) : isdigit(s[j])
         IN  SubSeq(s, 1, k - 1)

\* a digit string without its leading zeros
StripZeros(s) ==
    IF \A i \in 1..Len(s) : s[i] = 48 THEN <<>>
    ELSE LET k == CHOOSE i \in 1..Len(s) :
                     s[i] # 48 /\ \A j \in 1..(i - 1) : s[j] = 48
         IN  SubSeq(s, k, Len(s))

\* lexicographic s <= t for digit strings of the same length
RECURSIVE DigitsLeq(_, _)
DigitsLeq(s, t) ==
    IF s = <<>> THEN TRUE
    ELSE IF Head(s) # Head(t) THEN Head(s) < Head(t)
    ELSE DigitsLeq(Tail(s), Tail(t))

\* the decimal digits of 2^31 - 1 and of 2^63 - 1
IntMaxDigits == <<50, 49, 52, 55, 52, 56, 51, 54, 52, 55>>
LongMaxDigits ==
    <<57, 50, 50, 51, 51, 55, 50, 48, 51, 54, 56, 53, 52, 55, 55, 53, 56, 48, 55>>

\* the value of a digit string (leading zeros stripped) is at most that of m
FitsIn(ds, m) ==
    LET d == StripZeros(ds) IN
    \/ Len(d) < Len(m)
    \/ Len(d) = Len(m) /\ DigitsLeq(d, m)

\* the value of a digit string that fits in an int
RECURSIVE DigitsValue(_, _)
DigitsValue(ds, acc) ==
    IF ds = <<>> THEN acc
    ELSE DigitsValue(Tail(ds), acc * 10 + (Head(ds) - 48))

\* the value of a digit string modulo 2^32, as two 16-bit halves
RECURSIVE DigitsWrap(_, _, _)
DigitsWrap(ds, hi, lo) ==
    IF ds = <<>> THEN [hi |-> hi, lo |-> lo]
    ELSE LET l == lo * 10 + (Head(ds) - 48)
             h == hi * 10 + (l \div 65536)
         IN  DigitsWrap(Tail(ds), h % 65536, l % 65536)

\* a 32-bit pattern read as a two's complement int
AsInt(w) ==
    IF w.hi >= 32768 THEN (w.hi - 65536) * 65536 + w.lo
    ELSE w.hi * 65536 + w.lo

NegInt(v) == IF v = INT_MIN THEN INT_MIN ELSE -v

(***************************************************************************)
(* atoi.  The result is defined when the value fits in an int.  When it    *)
(* does not the behaviour is undefined, and the outcome is that of the     *)
(* platform's strtol: with a 64-bit long ("lp64") the long result,         *)
(* saturated at LONG_MAX, is truncated to 32 bits; with a 32-bit long      *)
(* ("win32") the result saturates at INT_MAX or INT_MIN.                   *)
(***************************************************************************)
Platforms == {"lp64", "win32"}

atoi_digits(ds, neg, platform) ==
    IF FitsIn(ds, IntMaxDigits)
    THEN LET v == DigitsValue(StripZeros(ds), 0) IN IF neg THEN -v ELSE v
    ELSE IF platform = "lp64"
    THEN IF FitsIn(ds, LongMaxDigits)
         THEN LET v == AsInt(DigitsWrap(ds, 0, 0)) IN
              IF neg THEN NegInt(v) ELSE v
         ELSE IF neg THEN 0 ELSE -1
    ELSE IF neg THEN INT_MIN ELSE INT_MAX

atoi(s, platform) ==
    LET t == SkipSpace(s)
        signed == t # <<>> /\ Head(t) \in {43, 45}
        neg == t # <<>> /\ Head(t) = 45
        u == IF signed THEN Tail(t) ELSE t
    IN  atoi_digits(DigitPrefix(u), neg, platform)

(***************************************************************************)
(* Validators of the client (libs/password/password.c)                     *)
(***************************************************************************)
\* strchr(s, c) != NULL: the terminating NUL is part of the string
strchr_found(s, c) == c = NUL \/ c \in Range(s)

\* the two characters compared as they are
keep_generating_exact(type, type_for_ending) == type # type_for_ending

keep_generating(type, type_for_ending) ==
    tolower(type) # tolower(type_for_ending)

\* the type folded to lower case before the search
control_type_folding(allowed_type, type) ==
    strchr_found(allowed_type, tolower(type))

control_type(allowed_type, type) == strchr_found(allowed_type, type)

\* the upper bound taken as exclusive
control_length_exclusive(length, min_length, max_length, platform) ==
    IF \E i \in 1..Len(length) : ~isdigit(length[i]) THEN FALSE
    ELSE LET numerical_length == atoi(length, platform) IN
         numerical_length >= min_length /\ numerical_length < max_length

\* every character up to the terminator is a digit, then atoi and the range
control_length(length, min_length, max_length, platform) ==
    IF \E i \in 1..Len(length) : ~isdigit(length[i]) THEN FALSE
    ELSE LET numerical_length == atoi(length, platform) IN
         numerical_length >= min_length /\ numerical_length <= max_length

(***************************************************************************)
(* The random source.  rand() belongs to the C library; it is modelled as  *)
(* a linear congruential stream whose state is the last value returned.    *)
(* The code never calls srand, so the stream starts where the library      *)
(* starts it, as after srand(1).                                           *)
(***************************************************************************)
rand(x) == (x * 7 + 3) % RandMod

(***************************************************************************)
(* Generators of the server (libs/password/password.c)                     *)
(*                                                                         *)
(* A generator writes through `password`, a buffer of Len(buf) bytes.  A   *)
(* store outside the buffer is undefined behaviour: the generator stops    *)
(* at the first one, sets `faulted` and reports its index in `fault_at`.    *)
(* `calls` counts the values taken from the random source.                 *)
(***************************************************************************)
PasswordType == {"NUMERIC", "ALPHA", "MIXED", "SECURE", "UNAMBIGUOUS"}

\* "abcdefghijklmnopqrstuvwxyzABCDEFGHIJKLMNOPQRSTUVWXYZ0123456789!@#$%^&*()"
secure_charset ==
    <<97, 98, 99, 100, 101, 102, 103, 104, 105, 106, 107, 108, 109, 110, 111,
      112, 113, 114, 115, 116, 117, 118, 119, 120, 121, 122,
      65, 66, 67, 68, 69, 70, 71, 72, 73, 74, 75, 76, 77, 78, 79, 80, 81, 82,
      83, 84, 85, 86, 87, 88, 89, 90,
      48, 49, 50, 51, 52, 53, 54, 55, 56, 57,
      33, 64, 35, 36, 37, 94, 38, 42, 40, 41>>

\* the reduced set with the letter l left in
unambiguous_charset_with_l ==
    <<97, 98, 99, 100, 101, 102, 103, 104, 106, 107, 108, 109, 110, 112, 113,
      114, 116, 117, 118, 119, 120, 121,
      65, 67, 68, 69, 70, 71, 72, 74, 75, 76, 77, 78, 80, 81, 82, 84, 85, 86,
      87, 88, 89,
      51, 52, 54, 55, 57,
      33, 64, 35, 36, 37, 94, 38, 42, 40, 41>>

\* "abcdefghjkmnpqrtuvwxyACDEFGHJKLMNPQRTUVWXY34679!@#$%^&*()"
unambiguous_charset ==
    <<97, 98, 99, 100, 101, 102, 103, 104, 106, 107, 109, 110, 112, 113,
      114, 116, 117, 118, 119, 120, 121,
      65, 67, 68, 69, 70, 71, 72, 74, 75, 76, 77, 78, 80, 81, 82, 84, 85, 86,
      87, 88, 89,
      51, 52, 54, 55, 57,
      33, 64, 35, 36, 37, 94, 38, 42, 40, 41>>

\* password[i] = b
Store(g, i, b) ==
    IF i \in 0..(Len(g.buf) - 1)
    THEN [g EXCEPT !.buf[i + 1] = b]
    ELSE [g EXCEPT !.faulted = TRUE, !.fault_at = i]

\* the terminator stored one byte early
Terminate_one_short(g, length) == Store(g, length - 1, NUL)

\* password[length] = '\0'
Terminate(g, length) == Store(g, length, NUL)

\* password[i] = '0' + rand() % 10
numeric_char(g, i) ==
    LET r == rand(g.rand) IN
    [Store(g, i, 48 + (r % 10)) EXCEPT !.rand = r, !.calls = @ + 1]

\* password[i] = 'a' + rand() % 26
alpha_char(g, i) ==
    LET r == rand(g.rand) IN
    [Store(g, i, 97 + (r % 26)) EXCEPT !.rand = r, !.calls = @ + 1]

\* the two branches of the draw exchanged: a letter on an even first value
mixed_char_even_letter(g, i) ==
    LET r1 == rand(g.rand)
        r2 == rand(r1)
        c == IF r1 % 2 = 0 THEN 97 + (r2 % 26) ELSE 48 + (r2 % 10)
    IN  [Store(g, i, c) EXCEPT !.rand = r2, !.calls = @ + 2]

\* password[i] = (rand() % 2) ? 'a' + rand() % 26 : '0' + rand() % 10
mixed_char(g, i) ==
    LET r1 == rand(g.rand)
        r2 == rand(r1)
        c == IF r1 % 2 # 0 THEN 97 + (r2 % 26) ELSE 48 + (r2 % 10)
    IN  [Store(g, i, c) EXCEPT !.rand = r2, !.calls = @ + 2]

\* password[i] = charset[rand() % (sizeof(charset) - 1)]
secure_char(g, i) ==
    LET r == rand(g.rand) IN
    [Store(g, i, secure_charset[(r % Len(secure_charset)) + 1])
        EXCEPT !.rand = r, !.calls = @ + 1]

unambiguous_char(g, i) ==
    LET r == rand(g.rand) IN
    [Store(g, i, unambiguous_charset[(r % Len(unambiguous_charset)) + 1])
        EXCEPT !.rand = r, !.calls = @ + 1]

\* The loop of a generator, from index i on.  The state the loop has
\* reached is bound once per iteration (g \in {reached}), so that an
\* iteration is evaluated once however the result is used.
RECURSIVE generate_numeric(_, _, _)
generate_numeric(reached, i, length) ==
    CHOOSE result \in
        { IF g.faulted THEN g
          ELSE IF i < length
          THEN generate_numeric(numeric_char(g, i), i + 1, length)
          ELSE Terminate(g, length) : g \in {reached} } : TRUE

RECURSIVE generate_alpha(_, _, _)
generate_alpha(reached, i, length) ==
    CHOOSE result \in
        { IF g.faulted THEN g
          ELSE IF i < length
          THEN generate_alpha(alpha_char(g, i), i + 1, length)
          ELSE Terminate(g, length) : g \in {reached} } : TRUE

RECURSIVE generate_mixed(_, _, _)
generate_mixed(reached, i, length) ==
    CHOOSE result \in
        { IF g.faulted THEN g
          ELSE IF i < length
          THEN generate_mixed(mixed_char(g, i), i + 1, length)
          ELSE Terminate(g, length) : g \in {reached} } : TRUE

RECURSIVE generate_secure(_, _, _)
generate_secure(reached, i, length) ==
    CHOOSE result \in
        { IF g.faulted THEN g
          ELSE IF i < length
          THEN generate_secure(secure_char(g, i), i + 1, length)
          ELSE Terminate(g, length) : g \in {reached} } : TRUE

RECURSIVE generate_unambiguous(_, _, _)
generate_unambiguous(reached, i, length) ==
    CHOOSE result \in
        { IF g.faulted THEN g
          ELSE IF i < length
          THEN generate_unambiguous(unambiguous_char(g, i), i + 1, length)
          ELSE Terminate(g, length) : g \in {reached} } : TRUE

\* the state a generator starts from: the caller's buffer and the stream
GenStart(buf, x) ==
    [buf |-> buf, rand |-> x, calls |-> 0, faulted |-> FALSE, fault_at |-> 0]

generate_password(password, type, length, x) ==
    LET g == GenStart(password, x) IN
    CASE type = "NUMERIC" -> generate_numeric(g, 0, length)
      [] type = "ALPHA" -> generate_alpha(g, 0, length)
      [] type = "MIXED" -> generate_mixed(g, 0, length)
      [] type = "SECURE" -> generate_secure(g, 0, length)
      [] type = "UNAMBIGUOUS" -> generate_unambiguous(g, 0, length)

\* a buffer of n bytes that nobody has written
Fresh(n) == [i \in 1..n |-> Indet]

(***************************************************************************)
(* Reading a char array as a C string: the bytes before the first NUL.     *)
(* When the array holds no NUL, or an indeterminate byte comes first, the  *)
(* read is undefined and `defined` is FALSE (text is what was read of the  *)
(* array before that).                                                     *)
(***************************************************************************)
RECURSIVE CStringFrom(_, _)
CStringFrom(buf, i) ==
    IF i > Len(buf) \/ buf[i] = Indet
    THEN [text |-> <<>>, defined |-> FALSE]
    ELSE IF buf[i] = NUL THEN [text |-> <<>>, defined |-> TRUE]
    ELSE LET rest == CStringFrom(buf, i + 1) IN
         [text |-> <<buf[i]>> \o rest.text, defined |-> rest.defined]

CString(buf) == CStringFrom(buf, 1)

(***************************************************************************)
(* State                                                                   *)
(***************************************************************************)
VARIABLES
    \* client (UDP_client.c, main)
    c_pc,              \* where main is: input, send, receive, display, exit_*
    c_platform,        \* the platform the client was built for
    password_request,  \* [type, length]: type a char, length a C string
    response_msg,      \* the password field, RESPONSE_SIZE bytes
    server_address,    \* where send_request sends to
    c_shown,           \* the request the last password was displayed for
    c_sent,            \* number of requests sent
    c_rcv,             \* size of the datagram receive_response last read
    c_received,        \* number of datagrams receive_response has read
    \* server (UDP_server.c, main)
    s_pc,              \* receive, send, exit_failure, crashed
    s_platform,        \* the platform the server was built for
    request,           \* [type, length] as receive_request left it
    response,          \* the password field, RESPONSE_SIZE bytes
    client_address,    \* the sender of the last request
    s_gen,             \* the last call of generate_password and its outcome
    s_served,          \* number of datagrams received
    s_rcv,             \* size of the datagram receive_request last read
    rand_state,        \* state of the C library's random source
    srand_calls,       \* number of calls of srand the process has made
    s_log,             \* the datagrams received, each with its answer
    \* the network
    net_req,           \* datagrams in flight that carry a request image
    net_resp,          \* datagrams in flight that carry a response image
    foreign_sent,      \* number of datagrams injected by other hosts
    net_lost,          \* number of datagrams the network has dropped
    net_dup,           \* number of datagrams the network has duplicated
    \* the function under test, in the specifications of the pure functions
    probe

vars == <<c_pc, c_platform, password_request, response_msg, server_address,
          c_shown, c_sent, c_rcv, c_received, s_pc, s_platform, request,
          response, client_address, s_gen, s_served, s_rcv, rand_state,
          srand_calls, s_log, net_req, net_resp, foreign_sent, net_lost,
          net_dup, probe>>

client_vars == <<c_pc, c_platform, password_request, response_msg,
                 server_address, c_shown, c_sent, c_rcv, c_received>>
server_vars == <<s_pc, s_platform, request, response, client_address, s_gen,
                 s_served, s_rcv, rand_state, srand_calls, s_log>>

ClientAddr == "client"
ServerAddr == "server"
ForeignAddr == "foreign"
\* a sockaddr_in nothing has been stored in
NoAddr == "unset"

(***************************************************************************)
(* Datagrams.  A datagram of `size` bytes carries the first `size` bytes   *)
(* of a record's image; a field the datagram does not carry whole (up to   *)
(* its terminator, for a string) is Indet for the receiver, whose buffer   *)
(* keeps there whatever it held.  `copies` is 2 once the network has       *)
(* duplicated the datagram.                                                *)
(***************************************************************************)
\* the type put on the wire in lower case
RequestDatagram_folded(src, dst, size, type, length) ==
    [src |-> src, dst |-> dst, size |-> size, copies |-> 1,
     type |-> IF size >= 1 THEN tolower(type) ELSE Indet,
     length |-> IF length # IndetString /\ size >= Len(length) + 2
                THEN length ELSE IndetString]

RequestDatagram(src, dst, size, type, length) ==
    [src |-> src, dst |-> dst, size |-> size, copies |-> 1,
     type |-> IF size >= 1 THEN type ELSE Indet,
     length |-> IF length # IndetString /\ size >= Len(length) + 2
                THEN length ELSE IndetString]

\* every response put on the network twice
ResponseDatagram_twice(src, dst, size, bytes) ==
    [src |-> src, dst |-> dst, size |-> size, copies |-> 2, bytes |-> bytes]

\* bytes: the first min(size, RESPONSE_SIZE) bytes of the payload
ResponseDatagram(src, dst, size, bytes) ==
    [src |-> src, dst |-> dst, size |-> size, copies |-> 1, bytes |-> bytes]

\* the datagram d enters the network, beside any equal one in flight
Sent(net, d) ==
    IF \E e \in net : [e EXCEPT !.copies = 1] = d
    THEN LET e == CHOOSE e \in net : [e EXCEPT !.copies = 1] = d
         IN  (net \ {e}) \cup {[e EXCEPT !.copies = @ + 1]}
    ELSE net \cup {d}

\* the datagram d leaves the network (one copy of it, when duplicated)
Taken(net, d) ==
    IF d.copies > 1
    THEN (net \ {d}) \cup {[d EXCEPT !.copies = @ - 1]}
    ELSE net \ {d}

\* what recvfrom returns for a datagram read into a buffer of `room` bytes:
\* a longer datagram is cut to the buffer on POSIX and is an error
\* (WSAEMSGSIZE, SOCKET_ERROR) on Winsock
recvfrom_size(d, room, platform) ==
    IF d.size <= room THEN d.size
    ELSE IF platform = "win32" THEN -1 ELSE room

(***************************************************************************)
(* Client: handle_user_input                                               *)
(***************************************************************************)
\* sscanf(input, " %c %s %s", &type, length, input): the fields converted
\* and the return value (EOF when the line holds nothing to convert)
sscanf_input(input, old) ==
    LET s1 == SkipSpace(input) IN
    IF s1 = <<>> THEN [arguments |-> -1, type |-> old.type, length |-> old.length]
    ELSE LET s2 == SkipSpace(Tail(s1)) IN
         IF s2 = <<>>
         THEN [arguments |-> 1, type |-> Head(s1), length |-> old.length]
         ELSE LET tok == Token(s2)
                  s3 == SkipSpace(SubSeq(s2, Len(tok) + 1, Len(s2)))
              IN  [arguments |-> IF s3 = <<>> THEN 2 ELSE 3,
                   type |-> Head(s1), length |-> tok]

\* "namsu", the quit code left out
AllowedWithQuit_missing == <<110, 97, 109, 115, 117>>
\* "namsuq"
AllowedWithQuit == <<110, 97, 109, 115, 117, 113>>
\* "namsu"
AllowedTypes == <<110, 97, 109, 115, 117>>
\* "6", the shortest length
DefaultLength_min == <<54>>
\* "8"
DefaultLength == <<56>>

\* the outcome of one pass of handle_user_input on one line of input:
\* "help" (the menu is shown again), "invalid" (false) or "valid" (true).
\* An indeterminate type (no line has set it yet) may or may not compare
\* equal to 'h'; either way the request is left as it was and the menu is
\* shown again, which "invalid" stands for.
handle_user_input(input, old, platform) ==
    LET p == sscanf_input(input, old)
        req == [type |-> p.type, length |-> p.length]
        def == IF p.arguments = 1 THEN [req EXCEPT !.length = DefaultLength]
               ELSE req
    IN  IF tolower(req.type) = 104
        THEN [result |-> "help", request |-> req]
        ELSE IF p.arguments # 1 /\ p.arguments # 2
        THEN [result |-> "invalid", request |-> req]
        ELSE IF ~control_type(AllowedWithQuit, def.type)
        THEN [result |-> "invalid", request |-> def]
        ELSE IF ~control_length(def.length, MIN_PASSWORD_LENGTH,
                                MAX_PASSWORD_LENGTH, platform)
        THEN [result |-> "invalid", request |-> def]
        ELSE [result |-> "valid", request |-> def]

\* the lines the user may type (each ends with the newline fgets keeps)
UserLines ==
    { <<110, 32, 49, 48, 10>>,           \* "n 10"
      <<109, 32, 51, 50, 10>>,           \* "m 32"
      <<117, 32, 54, 10>>,               \* "u 6"
      <<115, 10>>,                       \* "s"
      <<113, 10>>,                       \* "q"
      <<113, 32, 51, 10>>,               \* "q 3"
      <<113, 32, 49, 48, 10>>,           \* "q 10"
      <<104, 10>>,                       \* "h"
      <<78, 32, 56, 10>>,                \* "N 8"
      <<110, 32, 51, 51, 10>>,           \* "n 33"
      <<110, 32, 56, 32, 57, 10>>,       \* "n 8 9"
      <<10>>,                            \* ""
      <<110, 32, 52, 50, 57, 52, 57, 54, 55, 51, 48, 50, 10>> }  \* "n 4294967302"

\* foreign datagrams sent to the server: [size, type, length]
ForeignRequests ==
    { [size |-> 0, type |-> 120, length |-> <<56>>],                \* empty
      [size |-> 1, type |-> 120, length |-> <<56>>],                \* 'x'
      [size |-> REQUEST_SIZE, type |-> 120, length |-> <<56>>],     \* 'x' "8"
      [size |-> REQUEST_SIZE, type |-> 85, length |-> <<51>>],      \* 'U' "3"
      [size |-> REQUEST_SIZE, type |-> 110, length |-> <<49, 48, 48>>], \* 'n' "100"
      [size |-> REQUEST_SIZE, type |-> 110, length |-> <<45, 53>>], \* 'n' "-5"
      [size |-> REQUEST_SIZE, type |-> 97, length |-> <<97, 98, 99>>], \* 'a' "abc"
      [size |-> REQUEST_SIZE + 1, type |-> 115, length |-> <<54>>] }  \* 's' "6"

\* foreign datagrams sent to the client: [size, payload], the payload a
\* short text and its terminator, or bytes without any terminator
ForeignText == [i \in 1..RESPONSE_SIZE |-> IF i <= 3 THEN 63 ELSE NUL]
ForeignBytes == [i \in 1..RESPONSE_SIZE |-> 65]
ForeignResponses ==
    { [size |-> 0, payload |-> ForeignText],
      [size |-> RESPONSE_SIZE, payload |-> ForeignText],
      [size |-> RESPONSE_SIZE, payload |-> ForeignBytes],
      [size |-> RESPONSE_SIZE + 1, payload |-> ForeignText] }

(***************************************************************************)
(* Init                                                                    *)
(***************************************************************************)
NoDisplay == [shown |-> FALSE, type |-> Indet, length |-> IndetString]
NoReceive == [size |-> -1, rcv_msg_size |-> -1]
NoGen == [called |-> FALSE, type |-> "NUMERIC", length |-> 0, calls |-> 0,
          faulted |-> FALSE, fault_at |-> 0]
NoProbe == [op |-> "none"]

InitSystem ==
    /\ c_pc = "input"
    /\ c_platform \in Platforms
    /\ password_request = [type |-> Indet, length |-> IndetString]
    /\ response_msg = Fresh(RESPONSE_SIZE)
    /\ server_address = ServerAddr
    /\ c_shown = NoDisplay
    /\ c_sent = 0
    /\ c_rcv = NoReceive
    /\ c_received = 0
    /\ s_pc = "receive"
    /\ s_platform \in Platforms
    /\ request = [type |-> Indet, length |-> IndetString]
    /\ response = Fresh(RESPONSE_SIZE)
    /\ client_address = NoAddr
    /\ s_gen = NoGen
    /\ s_served = 0
    /\ s_rcv = NoReceive
    /\ srand_calls = 0
    /\ s_log = <<>>
    /\ net_req = {}
    /\ net_resp = {}
    /\ foreign_sent = 0
    /\ net_lost = 0
    /\ net_dup = 0
    /\ probe = NoProbe

(***************************************************************************)
(* Client: the loop of main                                                *)
(***************************************************************************)
\* a failed call answered by going round the loop again
client_main_after_retry(ok, next) == IF ok THEN next ELSE "input"

\* where main goes after send_request or receive_response: on false it
\* closes the socket and returns EXIT_FAILURE
client_main_after(ok, next) == IF ok THEN next ELSE "exit_failure"

\* handle_user_input on the line `input`, then the test of the quit sentinel
ClientInputLine(input) ==
    /\ c_pc = "input"
    /\ LET h == handle_user_input(input, password_request, c_platform)
           next == IF h.result # "valid" THEN "input"
                   ELSE IF ~keep_generating(h.request.type, 113)
                   THEN "exit_success"
                   ELSE "send"
       IN  /\ next = "send" => c_sent < MaxRequests
           /\ password_request' = h.request
           /\ c_pc' = next
    /\ UNCHANGED <<c_platform, response_msg, server_address, c_shown,
                   c_sent, c_rcv, c_received>>
    /\ UNCHANGED <<server_vars, net_req, net_resp,
                   foreign_sent, net_lost, net_dup, probe>>

\* the user types any of the lines
ClientInput == \E input \in UserLines : ClientInputLine(input)

\* a client that prompts again without waiting for the response
ClientSend_no_wait ==
    /\ c_pc = "send"
    /\ net_req' = Sent(net_req,
          RequestDatagram(ClientAddr, server_address, REQUEST_SIZE,
                          password_request.type, password_request.length))
    /\ c_sent' = c_sent + 1
    /\ c_pc' = client_main_after(TRUE, "input")
    /\ UNCHANGED <<c_platform, password_request, response_msg, server_address,
                   c_shown, c_rcv, c_received>>
    /\ UNCHANGED <<server_vars, net_resp, foreign_sent, net_lost, net_dup, probe>>

\* send_request: sendto sent the whole record
ClientSend ==
    /\ c_pc = "send"
    /\ net_req' = Sent(net_req,
          RequestDatagram(ClientAddr, server_address, REQUEST_SIZE,
                          password_request.type, password_request.length))
    /\ c_sent' = c_sent + 1
    /\ c_pc' = client_main_after(TRUE, "receive")
    /\ UNCHANGED <<c_platform, password_request, response_msg, server_address,
                   c_shown, c_rcv, c_received>>
    /\ UNCHANGED <<server_vars, net_resp, foreign_sent, net_lost, net_dup, probe>>

\* send_request: sendto failed or sent less than the record
ClientSendFail ==
    /\ c_pc = "send"
    /\ c_pc' = client_main_after(FALSE, "receive")
    /\ UNCHANGED <<c_platform, password_request, response_msg, server_address,
                   c_shown, c_sent, c_rcv, c_received>>
    /\ UNCHANGED <<server_vars, net_req, net_resp,
                   foreign_sent, net_lost, net_dup, probe>>

\* the last byte received left out of the copy
received_response_one_short(old, d, n) ==
    [i \in 1..RESPONSE_SIZE |-> IF i < n THEN d.bytes[i] ELSE old[i]]

\* recvfrom(client_socket, response_msg, sizeof(*response_msg), ...,
\*          server_address, ...): the bytes received overwrite the start of
\* the record, the rest of it keeps what it held
received_response(old, d, n) ==
    [i \in 1..RESPONSE_SIZE |-> IF i <= n THEN d.bytes[i] ELSE old[i]]

\* what print_with_color(response_msg.password, GREEN) shows: the record
\* changes only in receive_response, which the display follows
displayed == CString(response_msg)

\* receive_response on a datagram addressed to the client, then the display
ClientReceive ==
    /\ c_pc = "receive"
    /\ \E d \in net_resp :
         /\ d.dst = ClientAddr
         /\ net_resp' = Taken(net_resp, d)
         /\ LET n == recvfrom_size(d, RESPONSE_SIZE, c_platform) IN
            /\ c_rcv' = [size |-> d.size, rcv_msg_size |-> n]
            /\ IF n < 0
               THEN /\ c_pc' = client_main_after(FALSE, "input")
                    /\ UNCHANGED <<response_msg, server_address, c_shown,
                                   c_received>>
               ELSE /\ response_msg' = received_response(response_msg, d, n)
                    /\ server_address' = d.src
                    /\ c_received' = c_received + 1
                    /\ c_shown' = [shown |-> TRUE,
                                    type |-> password_request.type,
                                    length |-> password_request.length]
                    /\ c_pc' = client_main_after(TRUE, "input")
    /\ UNCHANGED <<c_platform, password_request, c_sent>>
    /\ UNCHANGED <<server_vars, net_req, foreign_sent, net_lost, net_dup, probe>>

\* a receive that gives up waiting and lets the loop prompt again
ClientReceiveFail_reprompt ==
    /\ c_pc = "receive"
    /\ c_pc' = "input"
    /\ UNCHANGED <<c_platform, password_request, response_msg, server_address,
                   c_shown, c_sent, c_rcv, c_received>>
    /\ UNCHANGED <<server_vars, net_req, net_resp,
                   foreign_sent, net_lost, net_dup, probe>>

\* receive_response: recvfrom reported an error
ClientReceiveFail ==
    /\ c_pc = "receive"
    /\ c_pc' = client_main_after(FALSE, "input")
    /\ UNCHANGED <<c_platform, password_request, response_msg, server_address,
                   c_shown, c_sent, c_rcv, c_received>>
    /\ UNCHANGED <<server_vars, net_req, net_resp,
                   foreign_sent, net_lost, net_dup, probe>>

(***************************************************************************)
(* Server: handle_password_request and the loop of main                    *)
(***************************************************************************)
\* the switch on the type as received, without tolower
password_type_of_case_sensitive(type) ==
    CASE type = 110 -> "NUMERIC"
      [] type = 97 -> "ALPHA"
      [] type = 109 -> "MIXED"
      [] type = 115 -> "SECURE"
      [] type = 117 -> "UNAMBIGUOUS"
      [] OTHER -> "NUMERIC"

\* switch (tolower(request->type))
password_type_of(type) ==
    CASE tolower(type) = 110 -> "NUMERIC"
      [] tolower(type) = 97 -> "ALPHA"
      [] tolower(type) = 109 -> "MIXED"
      [] tolower(type) = 115 -> "SECURE"
      [] tolower(type) = 117 -> "UNAMBIGUOUS"
      [] OTHER -> "NUMERIC"

\* what atoi may return for a length field no datagram has filled
IndetLengths == {-1, 0, 8, 33}

\* the password types the switch may select
TypeOutcomes(type) ==
    IF type = Indet THEN PasswordType ELSE {password_type_of(type)}

\* int numerical_length = atoi(request->length)
LengthOutcomes(length, platform) ==
    IF length = IndetString THEN IndetLengths ELSE {atoi(length, platform)}

\* the outcomes of handle_password_request on the fresh response record of
\* the loop body: the type selected, the length converted, and the state
\* generate_password(response->password, password_type, numerical_length)
\* ends in.  There is one outcome unless a field of the request is
\* indeterminate.
handle_password_request(req, x, platform) ==
    { [password_type |-> t, numerical_length |-> n,
       g |-> generate_password(Fresh(RESPONSE_SIZE), t, n, x)] :
         t \in TypeOutcomes(req.type),
         n \in LengthOutcomes(req.length, platform) }

\* recvfrom(server_socket, request, sizeof(*request), ...): the record as
\* the datagram fills it
received_request(d) == [type |-> d.type, length |-> d.length]

\* where main goes after receive_request or send_response: on false it
\* closes the socket and returns EXIT_FAILURE
server_main_after(ok, next) == IF ok THEN next ELSE "exit_failure"

\* the address recvfrom stores in client_address: the datagram's sender
sender_of(d) == d.src

\* receive_request on a datagram addressed to the server, then
\* handle_password_request.  After a store outside the password field the
\* process either dies or goes on to send what the field holds.
ServerReceive ==
    /\ s_pc = "receive"
    /\ s_served < MaxServed
    /\ \E d \in net_req :
         /\ d.dst = ServerAddr
         /\ net_req' = Taken(net_req, d)
         /\ s_served' = s_served + 1
         /\ LET n == recvfrom_size(d, REQUEST_SIZE, s_platform) IN
            /\ s_rcv' = [size |-> d.size, rcv_msg_size |-> n]
            /\ IF n < 0
               THEN /\ s_pc' = server_main_after(FALSE, "send")
                    /\ UNCHANGED <<request, response, client_address, s_gen,
                                   rand_state, s_log>>
               ELSE /\ request' = received_request(d)
                    /\ client_address' = sender_of(d)
                    /\ \E h \in handle_password_request(request', rand_state,
                                                         s_platform) :
                         /\ response' = h.g.buf
                         /\ rand_state' = h.g.rand
                         /\ s_gen' = [called |-> TRUE,
                                      type |-> h.password_type,
                                      length |-> h.numerical_length,
                                      calls |-> h.g.calls,
                                      faulted |-> h.g.faulted,
                                      fault_at |-> h.g.fault_at]
                         /\ s_log' = Append(s_log,
                               [src |-> d.src, size |-> d.size,
                                type |-> d.type, length |-> d.length,
                                password_type |-> h.password_type,
                                numerical_length |-> h.numerical_length,
                                answered |-> FALSE, dst |-> NoAddr,
                                password |-> Fresh(RESPONSE_SIZE)])
                         /\ s_pc' \in IF h.g.faulted
                                      THEN {server_main_after(TRUE, "send"),
                                            "crashed"}
                                      ELSE {server_main_after(TRUE, "send")}
    /\ UNCHANGED <<s_platform, srand_calls>>
    /\ UNCHANGED <<client_vars, net_resp, foreign_sent, net_lost, net_dup, probe>>

\* receive_request: recvfrom reported an error
ServerReceiveFail ==
    /\ s_pc = "receive"
    /\ s_pc' = server_main_after(FALSE, "send")
    /\ UNCHANGED <<s_platform, request, response, client_address, s_gen,
                   s_served, s_rcv, rand_state, srand_calls, s_log>>
    /\ UNCHANGED <<client_vars, net_req, net_resp,
                   foreign_sent, net_lost, net_dup, probe>>

\* send_response: sendto sent the whole record to client_address
ServerSend ==
    /\ s_pc = "send"
    /\ net_resp' = Sent(net_resp,
          ResponseDatagram(ServerAddr, client_address, RESPONSE_SIZE, response))
    /\ s_pc' = server_main_after(TRUE, "receive")
    \* request and response are locals of the loop body
    /\ request' = [type |-> Indet, length |-> IndetString]
    /\ response' = Fresh(RESPONSE_SIZE)
    /\ s_log' = [s_log EXCEPT ![Len(s_log)] =
                    [@ EXCEPT !.answered = TRUE, !.dst = client_address,
                              !.password = response]]
    /\ UNCHANGED <<s_platform, client_address, s_gen, s_served, s_rcv,
                   rand_state, srand_calls>>
    /\ UNCHANGED <<client_vars, net_req, foreign_sent, net_lost, net_dup, probe>>

\* send_response: sendto failed or sent less than the record
ServerSendFail ==
    /\ s_pc = "send"
    /\ s_pc' = server_main_after(FALSE, "receive")
    /\ UNCHANGED <<s_platform, request, response, client_address, s_gen,
                   s_served, s_rcv, rand_state, srand_calls, s_log>>
    /\ UNCHANGED <<client_vars, net_req, net_resp,
                   foreign_sent, net_lost, net_dup, probe>>

(***************************************************************************)
(* The network and the other hosts on it                                   *)
(***************************************************************************)
LoseRequest ==
    /\ \E d \in net_req : net_req' = Taken(net_req, d)
    /\ net_lost' = net_lost + 1
    /\ UNCHANGED <<client_vars, server_vars, net_resp, foreign_sent, net_dup,
                   probe>>

LoseResponse ==
    /\ \E d \in net_resp : net_resp' = Taken(net_resp, d)
    /\ net_lost' = net_lost + 1
    /\ UNCHANGED <<client_vars, server_vars, net_req, foreign_sent, net_dup,
                   probe>>

DuplicateRequest ==
    /\ net_dup < MaxDup
    /\ \E d \in net_req :
         /\ d.copies = 1
         /\ net_req' = (net_req \ {d}) \cup {[d EXCEPT !.copies = 2]}
    /\ net_dup' = net_dup + 1
    /\ UNCHANGED <<client_vars, server_vars, net_resp, foreign_sent, net_lost,
                   probe>>

DuplicateResponse ==
    /\ net_dup < MaxDup
    /\ \E d \in net_resp :
         /\ d.copies = 1
         /\ net_resp' = (net_resp \ {d}) \cup {[d EXCEPT !.copies = 2]}
    /\ net_dup' = net_dup + 1
    /\ UNCHANGED <<client_vars, server_vars, net_req, foreign_sent, net_lost,
                   probe>>

\* another host sends the server a datagram of any size
ForeignSendRequest ==
    /\ foreign_sent < MaxForeign
    /\ \E f \in ForeignRequests :
         net_req' = Sent(net_req,
            RequestDatagram(ForeignAddr, ServerAddr, f.size, f.type, f.length))
    /\ foreign_sent' = foreign_sent + 1
    /\ UNCHANGED <<client_vars, server_vars, net_resp, net_lost, net_dup, probe>>

\* another host sends the client a datagram of any size
ForeignSendResponse ==
    /\ foreign_sent < MaxForeign
    /\ \E f \in ForeignResponses :
         net_resp' = Sent(net_resp,
            ResponseDatagram(ForeignAddr, ClientAddr, f.size,
                 SubSeq(f.payload, 1, IF f.size < RESPONSE_SIZE THEN f.size
                                      ELSE RESPONSE_SIZE)))
    /\ foreign_sent' = foreign_sent + 1
    /\ UNCHANGED <<client_vars, server_vars, net_req, net_lost, net_dup, probe>>

\* the clients of the server, one socket address each
Peers == {"peer1", "peer2"}

\* what the clients send: [size, type, length]
PeerRequests ==
    { [size |-> REQUEST_SIZE, type |-> 110, length |-> <<56>>],     \* 'n' "8"
      [size |-> REQUEST_SIZE, type |-> 83, length |-> <<49, 54>>],  \* 'S' "16"
      [size |-> REQUEST_SIZE, type |-> 97, length |-> <<49, 48, 48>>], \* 'a' "100"
      [size |-> 1, type |-> 117, length |-> <<54>>] }               \* 'u'

\* any client sends the server a request, whatever is in flight
PeerSendRequest ==
    /\ foreign_sent < MaxPeerSends
    /\ \E a \in Peers, f \in PeerRequests :
         net_req' = Sent(net_req,
            RequestDatagram(a, ServerAddr, f.size, f.type, f.length))
    /\ foreign_sent' = foreign_sent + 1
    /\ UNCHANGED <<client_vars, server_vars, net_resp, net_lost, net_dup, probe>>

(***************************************************************************)
(* The pure functions, applied once to inputs drawn from bounded sets      *)
(***************************************************************************)
\* lengths generate_password is applied to: the contract's and its edges
ProbeLengths == (-1)..(MAX_PASSWORD_LENGTH + 1)

\* length fields handle_password_request is applied to
ProbeLengthFields ==
    { <<56>>,                            \* "8"
      <<51, 50>> }                       \* "32"

\* every ASCII character
Chars == 0..127

ProbeGenerate ==
    /\ probe = NoProbe
    /\ \E type \in PasswordType, length \in ProbeLengths :
         LET g == generate_password(Fresh(RESPONSE_SIZE), type, length,
                                    rand_state)
         IN  /\ probe' = [op |-> "generate_password", type |-> type,
                          length |-> length, seed |-> rand_state, g |-> g]
             /\ rand_state' = g.rand
    /\ UNCHANGED <<client_vars, s_pc, s_platform, request, response,
                   client_address, s_gen, s_served, s_rcv, srand_calls, s_log,
                   net_req, net_resp, foreign_sent, net_lost, net_dup>>

ProbeHandle ==
    /\ probe = NoProbe
    /\ \E type \in Chars, length \in ProbeLengthFields :
       \E h \in handle_password_request([type |-> type, length |-> length],
                                        rand_state, s_platform) :
         /\ probe' = [op |-> "handle_password_request", type |-> type,
                      length |-> length, seed |-> rand_state, h |-> h]
         /\ rand_state' = h.g.rand
    /\ UNCHANGED <<client_vars, s_pc, s_platform, request, response,
                   client_address, s_gen, s_served, s_rcv, srand_calls, s_log,
                   net_req, net_resp, foreign_sent, net_lost, net_dup>>

ProbeControlType ==
    /\ probe = NoProbe
    /\ \E allowed \in {AllowedTypes, AllowedWithQuit}, type \in Chars :
         probe' = [op |-> "control_type", allowed |-> allowed, type |-> type,
                   result |-> control_type(allowed, type)]
    /\ UNCHANGED <<client_vars, server_vars, net_req, net_resp,
                   foreign_sent, net_lost, net_dup>>

ProbeKeepGenerating ==
    /\ probe = NoProbe
    /\ \E type \in Chars, type_for_ending \in {113, 81} :
         probe' = [op |-> "keep_generating", type |-> type,
                   type_for_ending |-> type_for_ending,
                   result |-> keep_generating(type, type_for_ending)]
    /\ UNCHANGED <<client_vars, server_vars, net_req, net_resp,
                   foreign_sent, net_lost, net_dup>>

\* a string of n characters, all c but the last, which is last
Filled(n, c, last) == [i \in 1..n |-> IF i < n THEN c ELSE last]

\* the longest length field the client can read: fgets keeps 1023
\* characters of a line, two of them the type and the blank
LongestField == BUFFER_SIZE - 3

\* length strings control_length is applied to
ProbeLengthStrings ==
    { <<>>,                                         \* ""
      <<48>>,                                       \* "0"
      <<53>>,                                       \* "5"
      <<54>>,                                       \* "6"
      <<56>>,                                       \* "8"
      <<49, 54>>,                                   \* "16"
      <<51, 50>>,                                   \* "32"
      <<51, 51>>,                                   \* "33"
      <<48, 48, 56>>,                               \* "008"
      <<48, 48, 51, 51>>,                           \* "0033"
      <<50, 49, 52, 55, 52, 56, 51, 54, 52, 55>>,   \* "2147483647"
      <<50, 49, 52, 55, 52, 56, 51, 54, 52, 56>>,   \* "2147483648"
      <<52, 50, 57, 52, 57, 54, 55, 50, 57, 54>>,   \* "4294967296"
      <<52, 50, 57, 52, 57, 54, 55, 51, 48, 50>>,   \* "4294967302"
      <<52, 50, 57, 52, 57, 54, 55, 51, 50, 57>>,   \* "4294967329"
      <<57, 50, 50, 51, 51, 55, 50, 48, 51, 54, 56, 53, 52, 55, 55, 53, 56,
        48, 56>>,                                   \* "9223372036854775808"
      <<49, 56, 52, 52, 54, 55, 52, 52, 48, 55, 51, 55, 48, 57, 53, 53, 49,
        54, 50, 50>>,                               \* "18446744073709551622"
      Filled(LongestField, 48, 56),                 \* "00...08"
      Filled(LongestField, 57, 57),                 \* "99...99"
      <<97, 98, 99>>,                               \* "abc"
      <<45, 53>>,                                   \* "-5"
      <<43, 56>>,                                   \* "+8"
      <<49, 54, 97>>,                               \* "16a"
      <<56, 46, 48>>,                               \* "8.0"
      <<56, 32>>,                                   \* "8 "
      <<32, 56>> }                                  \* " 8"

\* bounds control_length is applied with: the client's and others
ProbeLengthBounds ==
    { [min |-> MIN_PASSWORD_LENGTH, max |-> MAX_PASSWORD_LENGTH],
      [min |-> 1, max |-> 8],
      [min |-> 0, max |-> 10],
      [min |-> -5, max |-> 5],
      [min |-> 33, max |-> INT_MAX] }

ProbeControlLength ==
    /\ probe = NoProbe
    /\ \E length \in ProbeLengthStrings, b \in ProbeLengthBounds :
         probe' = [op |-> "control_length", length |-> length,
                   min_length |-> b.min, max_length |-> b.max,
                   platform |-> c_platform,
                   result |-> control_length(length, b.min, b.max,
                                             c_platform)]
    /\ UNCHANGED <<client_vars, server_vars, net_req, net_resp,
                   foreign_sent, net_lost, net_dup>>

\* length strings a request is sent with: any text that fits the field
ProbeFields ==
    { <<>>,                                         \* ""
      <<56>>,                                       \* "8"
      <<49, 54>>,                                   \* "16"
      <<45, 53>>,                                   \* "-5"
      <<65, 98, 32, 9>>,                            \* "Ab <TAB>"
      Filled(LongestField, 57, 57),                 \* 1021 characters
      Filled(BUFFER_SIZE - 1, 120, 88) }            \* 1023 characters

\* send_request of a record on the client, receive_request of the datagram
\* on the server
ProbeRoundTrip ==
    /\ probe = NoProbe
    /\ \E type \in Chars, length \in ProbeFields :
         LET d == RequestDatagram(ClientAddr, ServerAddr, REQUEST_SIZE,
                                  type, length)
         IN  probe' = [op |-> "round_trip", type |-> type, length |-> length,
                       size |-> recvfrom_size(d, REQUEST_SIZE, s_platform),
                       decoded |-> received_request(d)]
    /\ UNCHANGED <<client_vars, server_vars, net_req, net_resp,
                   foreign_sent, net_lost, net_dup>>

\* lines handle_user_input is applied to, beside those of UserLines
ProbeLines ==
    UserLines \cup
    { <<97, 32, 54, 10>>,                \* "a 6"
      <<65, 32, 54, 10>>,                \* "A 6"
      <<77, 32, 56, 10>>,                \* "M 8"
      <<83, 10>>,                        \* "S"
      <<85, 32, 51, 50, 10>>,            \* "U 32"
      <<81, 10>>,                        \* "Q"
      <<72, 10>>,                        \* "H"
      <<120, 32, 56, 10>>,               \* "x 8"
      <<110, 32, 53, 10>>,               \* "n 5"
      <<110, 32, 97, 98, 99, 10>>,       \* "n abc"
      <<110, 32, 45, 53, 10>>,           \* "n -5"
      <<110, 32, 48, 48, 56, 10>>,       \* "n 008"
      <<110, 49, 48, 10>>,               \* "n10"
      <<32, 32, 115, 9, 49, 54, 32, 10>> }  \* "  s<TAB>16 "

\* what password_request may hold when a line is read
ProbeOldRequests ==
    { [type |-> Indet, length |-> IndetString],
      [type |-> 104, length |-> <<53>>],             \* 'h', "5"
      [type |-> 110, length |-> <<49, 48>>] }        \* 'n', "10"

ProbeHandleUserInput ==
    /\ probe = NoProbe
    /\ \E input \in ProbeLines, old \in ProbeOldRequests :
         probe' = [op |-> "handle_user_input", input |-> input, old |-> old,
                   platform |-> c_platform,
                   h |-> handle_user_input(input, old, c_platform)]
    /\ UNCHANGED <<client_vars, server_vars, net_req, net_resp,
                   foreign_sent, net_lost, net_dup>>

(***************************************************************************)
(* Specifications                                                          *)
(***************************************************************************)
\* rand before any srand is the stream of srand(1)
Init == InitSystem /\ rand_state = 1

\* the random source anywhere in its stream
InitAnySeed ==
    InitSystem /\ rand_state \in 0..(RandMod - 1) /\ c_platform = "lp64"

ClientNext ==
    \/ ClientInput
    \/ ClientSend
    \/ ClientSendFail
    \/ ClientReceive
    \/ ClientReceiveFail

ServerNext ==
    \/ ServerReceive
    \/ ServerReceiveFail
    \/ ServerSend
    \/ ServerSendFail

Next == ClientNext \/ ServerNext \/ ForeignSendRequest \/ ForeignSendResponse

\* client, server and other hosts that send either of them any datagram;
\* the network delivers every datagram once
Spec == Init /\ [][Next]_vars

\* client and server alone; the network delivers every datagram once
NextReliable == ClientNext \/ ServerNext
SpecReliable == Init /\ [][NextReliable]_vars

\* the server and the hosts that send it datagrams
NextServer == ServerNext \/ ForeignSendRequest
SpecServer == Init /\ [][NextServer]_vars

\* the server and several clients whose requests interleave
NextPeers == ServerNext \/ PeerSendRequest
SpecPeers == Init /\ [][NextPeers]_vars

\* the client and the hosts that send it datagrams
NextClient == ClientNext \/ ForeignSendResponse
SpecClient == Init /\ [][NextClient]_vars

\* client and server alone; the network may deliver a datagram twice, and
\* a copy as late as it likes
NextDup == ClientNext \/ ServerNext \/ DuplicateRequest \/ DuplicateResponse
SpecDup == Init /\ [][NextDup]_vars

\* client and server alone; the network may drop any datagram
NextLossy == ClientNext \/ ServerNext \/ LoseRequest \/ LoseResponse
SpecLossy == Init /\ [][NextLossy]_vars

\* a socket call that can complete does complete: sendto returns, and
\* recvfrom returns once a datagram for the socket has arrived
Scheduling ==
    /\ WF_vars(ClientSend)
    /\ WF_vars(ClientReceive)
    /\ WF_vars(ServerReceive)
    /\ WF_vars(ServerSend)

SpecLossyFair == SpecLossy /\ Scheduling

\* the generators and handle_password_request, from any state of the stream
NextGen == ProbeGenerate \/ ProbeHandle
SpecGen == InitAnySeed /\ [][NextGen]_vars

\* the validators of the client
NextValidate ==
    \/ ProbeControlType
    \/ ProbeControlLength
    \/ ProbeKeepGenerating
    \/ ProbeHandleUserInput
SpecValidate == Init /\ [][NextValidate]_vars

\* the request on the wire: sent by the client, received by the server
NextCodec == ProbeRoundTrip
SpecCodec == Init /\ [][NextCodec]_vars

(***************************************************************************)
(* Vocabulary of the properties                                            *)
(***************************************************************************)
\* the character sets of the five password types, as the specification
\* gives them
Symbols == {33, 64, 35, 36, 37, 94, 38, 42, 40, 41}       \* !@#$%^&*()
\* 0 O o, 1 l I i, 2 Z z, 5 S s, 8 B
ExcludedGlyphs ==
    {48, 79, 111, 49, 108, 73, 105, 50, 90, 122, 53, 83, 115, 56, 66}
SecureSet == LowerLetters \cup UpperLetters \cup Digits \cup Symbols

CharsetOf(type) ==
    CASE type = "NUMERIC" -> Digits
      [] type = "ALPHA" -> LowerLetters
      [] type = "MIXED" -> Digits \cup LowerLetters
      [] type = "SECURE" -> SecureSet
      [] type = "UNAMBIGUOUS" -> SecureSet \ ExcludedGlyphs

\* the five type codes n, a, m, s, u
TypeCodes == {110, 97, 109, 115, 117}

\* the password type a type code stands for, in either case
TypeOfCode(c) ==
    CASE c \in {110, 78} -> "NUMERIC"
      [] c \in {97, 65} -> "ALPHA"
      [] c \in {109, 77} -> "MIXED"
      [] c \in {115, 83} -> "SECURE"
      [] c \in {117, 85} -> "UNAMBIGUOUS"
      [] OTHER -> "NUMERIC"

\* a non-empty string of digits
IsDigitString(s) == s # <<>> /\ \A i \in 1..Len(s) : s[i] \in Digits

\* the decimal value of a digit string lies in lo..hi
DenotesIn(s, lo, hi) ==
    /\ IsDigitString(s)
    /\ FitsIn(s, IntMaxDigits)
    /\ DigitsValue(StripZeros(s), 0) \in lo..hi

\* a buffer holds exactly n characters of the set cs and then a terminator
HoldsPassword(buf, n, cs) ==
    /\ n + 1 <= Len(buf)
    /\ \A i \in 1..n : buf[i] \in cs
    /\ buf[n + 1] = NUL

LengthRange == MIN_PASSWORD_LENGTH..MAX_PASSWORD_LENGTH

(***************************************************************************)
(* C1: for every request datagram the server receives, from any sender,    *)
(* the length handle_password_request passes to generate_password lies in  *)
(* [6,32].                                                                 *)
(***************************************************************************)
C1_GeneratorLengthValidated ==
    s_gen.called => s_gen.length \in LengthRange

(***************************************************************************)
(* C2: the generator writes only inside the 33-byte password field, and    *)
(* every response datagram the server sends holds at most 32 password      *)
(* characters followed by a terminator inside the field.                   *)
(***************************************************************************)
C2_FieldNeverExceeded ==
    /\ s_gen.called => ~s_gen.faulted
    /\ \A d \in net_resp :
         d.src = ServerAddr =>
           \E n \in 0..MAX_PASSWORD_LENGTH :
              /\ d.bytes[n + 1] = NUL
              /\ \A i \in 1..n : d.bytes[i] \notin {NUL, Indet}

(***************************************************************************)
(* C3: for each of the five password types and every length in [6,32],     *)
(* from any state of the random source, generate_password writes exactly   *)
(* `length` characters of the type's charset and a terminator at index     *)
(* `length`, all inside the field.                                         *)
(***************************************************************************)
C3_GenerateExact ==
    (probe.op = "generate_password" /\ probe.length \in LengthRange) =>
        /\ ~probe.g.faulted
        /\ HoldsPassword(probe.g.buf, probe.length, CharsetOf(probe.type))

C3_Witness ==
    /\ probe.op = "generate_password"
    /\ probe.type = "SECURE"
    /\ probe.length = MAX_PASSWORD_LENGTH
    /\ probe.g.buf[MAX_PASSWORD_LENGTH + 1] = NUL
    /\ probe.g.buf[MAX_PASSWORD_LENGTH] \in Symbols

(***************************************************************************)
(* C4: the Unambiguous charset is the Secure charset without exactly the   *)
(* excluded glyphs 0 O o 1 l I i 2 Z z 5 S s 8 B, and no Unambiguous       *)
(* password contains an excluded glyph.                                    *)
(***************************************************************************)
C4_UnambiguousCharset ==
    /\ Range(secure_charset) = SecureSet
    /\ Range(unambiguous_charset) = Range(secure_charset) \ ExcludedGlyphs
    /\ (probe.op = "generate_password" /\ probe.type = "UNAMBIGUOUS") =>
          \A i \in 1..Len(probe.g.buf) : probe.g.buf[i] \notin ExcludedGlyphs

C4_Witness ==
    /\ probe.op = "generate_password"
    /\ probe.type = "UNAMBIGUOUS"
    /\ probe.length = MAX_PASSWORD_LENGTH
    /\ ~probe.g.faulted
    /\ {107, 109} \subseteq Range(probe.g.buf)

(***************************************************************************)
(* C5: every request datagram the client sends carries a type in           *)
(* {n,a,m,s,u} and a length field that is a digit-only string denoting a   *)
(* value in [6,32].                                                        *)
(***************************************************************************)
C5_ClientSendsValid ==
    \A d \in net_req :
       d.src = ClientAddr =>
          /\ d.type \in TypeCodes
          /\ DenotesIn(d.length, MIN_PASSWORD_LENGTH, MAX_PASSWORD_LENGTH)

(***************************************************************************)
(* C6: over a channel that delivers every datagram once, the password the  *)
(* client displays for a valid request (type in {n,a,m,s,u}, length L in   *)
(* [6,32]) has exactly L characters, all of the charset of the type.       *)
(***************************************************************************)
ShownLength == DigitsValue(StripZeros(c_shown.length), 0)

C6_EndToEnd ==
    ( /\ c_shown.shown
      /\ c_shown.type \in TypeCodes
      /\ DenotesIn(c_shown.length, MIN_PASSWORD_LENGTH, MAX_PASSWORD_LENGTH) )
    => /\ displayed.defined
       /\ Len(displayed.text) = ShownLength
       /\ Range(displayed.text) \subseteq CharsetOf(TypeOfCode(c_shown.type))

C6_Witness ==
    /\ c_shown.shown
    /\ c_shown.type = 110
    /\ c_shown.length = <<49, 48>>
    /\ displayed.defined
    /\ Len(displayed.text) = 10
    /\ c_sent = MaxRequests

(***************************************************************************)
(* C7: on the server and on the client, a received datagram whose size     *)
(* differs from the record's size is treated like a receive failure: the   *)
(* process leaves its loop with a failure, and the record is used neither  *)
(* for generation nor for display.                                         *)
(***************************************************************************)
C7_SizeMismatchAborts ==
    /\ (s_rcv.size >= 0 /\ s_rcv.size # REQUEST_SIZE) => s_pc = "exit_failure"
    /\ (c_rcv.size >= 0 /\ c_rcv.size # RESPONSE_SIZE) => c_pc = "exit_failure"

(***************************************************************************)
(* C8: the server maps the type character to a password type without       *)
(* regard to case (n/N Numeric, a/A Alpha, m/M Mixed, s/S Secure, u/U      *)
(* Unambiguous) and every other character to Numeric: the password it      *)
(* generates has the requested length and the charset of that type, so     *)
(* type 'x' with length "8" gives eight digits.                            *)
(***************************************************************************)
ProbeFieldLength == DigitsValue(probe.length, 0)

C8_TypeMapping ==
    probe.op = "handle_password_request" =>
        /\ probe.h.password_type = TypeOfCode(probe.type)
        /\ probe.h.numerical_length = ProbeFieldLength
        /\ ~probe.h.g.faulted
        /\ HoldsPassword(probe.h.g.buf, ProbeFieldLength,
                         CharsetOf(TypeOfCode(probe.type)))

C8_Witness ==
    /\ probe.op = "handle_password_request"
    /\ probe.type = 120
    /\ probe.length = <<56>>
    /\ probe.h.password_type = "NUMERIC"
    /\ HoldsPassword(probe.h.g.buf, 8, Digits)

(***************************************************************************)
(* C9, as claimed: control_type is true iff the lowercase-folded type      *)
(* appears among the candidates, so an uppercase type code is accepted     *)
(* like its lowercase form, by control_type and by the client.             *)
(***************************************************************************)
\* the first character of a line that is not white space
LineType(input) == Head(SkipSpace(input))

C9_CaseInsensitive ==
    /\ (probe.op = "control_type" /\ probe.type # NUL) =>
          (probe.result <=> tolower(probe.type) \in Range(probe.allowed))
    /\ ( /\ probe.op = "handle_user_input"
         /\ handle_user_input(
               [i \in 1..Len(probe.input) |-> tolower(probe.input[i])],
               probe.old, probe.platform).result = "valid" )
       => probe.h.result = "valid"

(***************************************************************************)
(* C9, amended: control_type compares without folding: it is true iff the  *)
(* type character itself appears among the candidates or is NUL.  With     *)
(* "namsu" it rejects N, A, M, S, U, and the client takes no line whose    *)
(* type is an uppercase letter as a valid request.                         *)
(***************************************************************************)
C9_CaseSensitive ==
    /\ probe.op = "control_type" =>
          (probe.result <=> (probe.type \in Range(probe.allowed)
                             \/ probe.type = NUL))
    /\ (probe.op = "control_type" /\ probe.type \in UpperLetters) =>
          ~probe.result
    /\ ( /\ probe.op = "handle_user_input"
         /\ SkipSpace(probe.input) # <<>>
         /\ LineType(probe.input) \in UpperLetters )
       => probe.h.result # "valid"

C9_Witness ==
    /\ probe.op = "control_type"
    /\ probe.allowed = AllowedTypes
    /\ probe.type = 78
    /\ ~probe.result

(***************************************************************************)
(* C10: for every character c, NUL included, control_type("namsu", c) is   *)
(* true exactly when c is one of n, a, m, s, u.                            *)
(***************************************************************************)
C10_ExactlyTypeCodes ==
    (probe.op = "control_type" /\ probe.allowed = AllowedTypes) =>
        (probe.result <=> probe.type \in TypeCodes)

(***************************************************************************)
(* C11: for a non-empty digit-only string whose value fits in an int,      *)
(* control_length(raw, min, max) is true iff min <= value <= max, leading  *)
(* zeros ignored; it is false for every string that holds a character      *)
(* that is not a digit.  With 6 and 32 it rejects "5" and "33" and accepts *)
(* "6" and "32".                                                           *)
(***************************************************************************)
ProbeLengthValue == DigitsValue(StripZeros(probe.length), 0)

C11_LengthInRange ==
    probe.op = "control_length" =>
        /\ (IsDigitString(probe.length) /\ FitsIn(probe.length, IntMaxDigits))
           => (probe.result <=>
                 (probe.min_length <= ProbeLengthValue
                  /\ ProbeLengthValue <= probe.max_length))
        /\ (\E i \in 1..Len(probe.length) : probe.length[i] \notin Digits)
           => ~probe.result

C11_Witness ==
    /\ probe.op = "control_length"
    /\ probe.length = <<51, 50>>
    /\ probe.min_length = MIN_PASSWORD_LENGTH
    /\ probe.max_length = MAX_PASSWORD_LENGTH
    /\ probe.result

(***************************************************************************)
(* C12: control_length is false for the empty string whatever the bounds   *)
(* min and max, min <= 0 included.                                         *)
(***************************************************************************)
C12_EmptyRejected ==
    (probe.op = "control_length" /\ probe.length = <<>>) => ~probe.result

(***************************************************************************)
(* C13: for every digit-only string of up to 1021 characters, with the     *)
(* conversion to int wrapping at 32 bits, control_length with the bounds   *)
(* 6 and 32 accepts it only if its decimal value lies in [6,32].           *)
(***************************************************************************)
C13_NoOverflow ==
    ( /\ probe.op = "control_length"
      /\ IsDigitString(probe.length)
      /\ Len(probe.length) <= LongestField
      /\ probe.min_length = MIN_PASSWORD_LENGTH
      /\ probe.max_length = MAX_PASSWORD_LENGTH
      /\ probe.result )
    => DenotesIn(probe.length, MIN_PASSWORD_LENGTH, MAX_PASSWORD_LENGTH)

(***************************************************************************)
(* C17: keep_generating(type, sentinel) is true iff the two characters     *)
(* differ after lowercase folding: false for ('q','q') and ('Q','q'),      *)
(* true for ('n','q').                                                     *)
(***************************************************************************)
Folded(c) == IF c \in UpperLetters THEN c + 32 ELSE c

C17_KeepGenerating ==
    probe.op = "keep_generating" =>
        (probe.result <=> Folded(probe.type) # Folded(probe.type_for_ending))

C17_Witness ==
    /\ probe.op = "keep_generating"
    /\ probe.type = 81
    /\ probe.type_for_ending = 113
    /\ ~probe.result

NoLengthLine(input) ==
    LET s1 == SkipSpace(input) IN
    /\ s1 # <<>>
    /\ Head(s1) \in TypeCodes
    /\ SkipSpace(Tail(s1)) = <<>>

\* the datagrams the client has put on the network in this step
NewRequests == {d \in net_req' : d.src = ClientAddr} \ net_req

C19_DefaultLength ==
    [][ /\ \A input \in UserLines :
             (ClientInputLine(input) /\ NoLengthLine(input)) =>
                /\ c_pc' = "send"
                /\ password_request' =
                      [type |-> LineType(input), length |-> <<56>>]
        /\ (c_pc = "send" /\ c_pc' = "receive") =>
              \E d \in NewRequests :
                 /\ d.type = password_request.type
                 /\ d.length = password_request.length
                 /\ d.size = REQUEST_SIZE ]_vars

C19_Witness ==
    /\ c_sent >= 2
    /\ \E d \in net_req :
         d.src = ClientAddr /\ d.type = 115 /\ d.length = <<56>>

(***************************************************************************)
(* C20, as claimed: whenever the type of the user's line is the quit code  *)
(* q, whatever follows it on the line, the client loop ends: no request is *)
(* sent for that line and the process exits with status 0; and the client  *)
(* exits with status 0 only this way.                                      *)
(***************************************************************************)
\* the line's first character that is not white space is q
TypedQuit(input) == SkipSpace(input) # <<>> /\ LineType(input) = 113

\* what follows the type on the line, its first field, and what follows it
LineRest(input) == SkipSpace(Tail(SkipSpace(input)))
LineField(input) == Token(LineRest(input))
LineAfterField(input) ==
    SkipSpace(SubSeq(LineRest(input), Len(LineField(input)) + 1,
                     Len(LineRest(input))))

\* the process is past its loop and sends nothing any more
ExitIsFinal ==
    c_pc = "exit_success" =>
        (c_pc' = "exit_success" /\ c_sent' = c_sent /\ NewRequests = {})

C20_QuitWhateverFollows ==
    [][ /\ \A input \in UserLines :
             (ClientInputLine(input) /\ TypedQuit(input)) =>
                (c_pc' = "exit_success" /\ NewRequests = {})
        /\ (c_pc # "exit_success" /\ c_pc' = "exit_success") =>
              \E input \in UserLines :
                 ClientInputLine(input) /\ TypedQuit(input)
        /\ ExitIsFinal ]_vars

(***************************************************************************)
(* C20, amended: the client loop ends, with nothing sent for the line and  *)
(* exit status 0, whenever the line is the quit code q alone or q and one  *)
(* further field that passes the length check; the client exits with       *)
(* status 0 only this way.  A line of type q whose second field fails the  *)
(* length check, or that has a third field, is rejected like any invalid   *)
(* line: the user is prompted again and nothing is sent.                   *)
(***************************************************************************)
QuitLine(input) ==
    /\ TypedQuit(input)
    /\ \/ LineRest(input) = <<>>
       \/ /\ LineAfterField(input) = <<>>
          /\ control_length(LineField(input), MIN_PASSWORD_LENGTH,
                            MAX_PASSWORD_LENGTH, c_platform)

C20_QuitAfterValidation ==
    [][ /\ \A input \in UserLines :
             (ClientInputLine(input) /\ TypedQuit(input)) =>
                /\ NewRequests = {}
                /\ c_pc' = IF QuitLine(input) THEN "exit_success" ELSE "input"
        /\ (c_pc # "exit_success" /\ c_pc' = "exit_success") =>
              \E input \in UserLines :
                 ClientInputLine(input) /\ QuitLine(input)
        /\ ExitIsFinal ]_vars

C20_Witness ==
    /\ c_pc = "exit_success"
    /\ password_request = [type |-> 113, length |-> <<49, 48>>]
    /\ c_sent >= 1

(***************************************************************************)
(* C14: in every server run the random source is seeded exactly once,      *)
(* before the first password is generated, and not again at each call: no  *)
(* password is generated from an unseeded source.                          *)
(***************************************************************************)
C14_SeededOnce ==
    s_gen.called => srand_calls = 1

(***************************************************************************)
(* C15: on either side, once a send or a receive fails (a partial send     *)
(* included) the process terminates with a failure status without          *)
(* retrying: it sends no further datagram and performs no further receive. *)
(***************************************************************************)
\* the datagrams the server has put on the network in this step
NewResponses == {d \in net_resp' : d.src = ServerAddr} \ net_resp

C15_FailStop ==
    [][ /\ (ClientSendFail \/ ClientReceiveFail) => c_pc' = "exit_failure"
        /\ (ServerSendFail \/ ServerReceiveFail) => s_pc' = "exit_failure"
        /\ c_pc = "exit_failure" =>
              /\ c_pc' = "exit_failure"
              /\ c_sent' = c_sent /\ c_rcv' = c_rcv
              /\ NewRequests = {}
        /\ s_pc = "exit_failure" =>
              /\ s_pc' = "exit_failure"
              /\ s_served' = s_served /\ s_rcv' = s_rcv /\ s_log' = s_log
              /\ NewResponses = {} ]_vars

C15_Witness ==
    /\ c_pc = "exit_failure"
    /\ c_sent = 1
    /\ s_pc = "exit_failure"
    /\ Len(s_log) = 1
    /\ ~s_log[1].answered

(***************************************************************************)
(* C16: with several clients whose requests interleave in any way, the     *)
(* server sends exactly one response per request it receives, in the order *)
(* received, each addressed to the source of the request it answers and    *)
(* generated from that request's type and length; it sends no response     *)
(* without a preceding request.                                            *)
(***************************************************************************)
\* the password type and the length the server generated with are those the
\* request carries
GeneratedFrom(e) ==
    /\ e.type # Indet
    /\ IsDigitString(e.length)
    /\ FitsIn(e.length, IntMaxDigits)
    /\ e.password_type = TypeOfCode(e.type)
    /\ e.numerical_length = DigitsValue(StripZeros(e.length), 0)

\* the response sent for the request: to its sender, a password of the
\* length and type generated
AnsweredTo(e) ==
    /\ e.answered
    /\ e.dst = e.src
    /\ HoldsPassword(e.password, e.numerical_length,
                     CharsetOf(e.password_type))

C16_OneResponsePerRequest ==
    /\ \A i \in 1..Len(s_log) :
          /\ GeneratedFrom(s_log[i])
          /\ (i < Len(s_log) \/ s_pc \in {"receive", "crashed"})
             => AnsweredTo(s_log[i])
    /\ \A d \in net_resp :
          d.src = ServerAddr =>
             \E i \in 1..Len(s_log) :
                /\ s_log[i].answered
                /\ d.dst = s_log[i].dst
                /\ d.bytes = s_log[i].password


(***************************************************************************)
(* C23                                                                     *)
(***************************************************************************)
\* the first n values the random source returns after the state x
RECURSIVE RandomValues(_, _)
RandomValues(x, n) ==
    IF n <= 0 THEN <<>>
    ELSE LET r == rand(x) IN <<r>> \o RandomValues(r, n - 1)

\* the charset a single-draw type indexes, in the order of its literal
IndexedCharset(type) ==
    CASE type = "NUMERIC" -> [i \in 1..10 |-> 47 + i]
      [] type = "ALPHA" -> [i \in 1..26 |-> 96 + i]
      [] type = "SECURE" -> secure_charset
      [] type = "UNAMBIGUOUS" -> unambiguous_charset

\* C23: a Mixed password takes two values r1, r2 of the random source for
\* each position, in that order, and stores the letter 'a' + (r2 mod 26) when
\* r1 is odd and the digit '0' + (r2 mod 10) when r1 is even; every other
\* type takes exactly one value r per position and stores the character of
\* its charset at index r modulo the size of the charset.
C23_DrawsPerPosition ==
    probe.op = "generate_password" =>
        LET n == IF probe.length < 0 THEN 0 ELSE probe.length
            k == IF probe.type = "MIXED" THEN 2 ELSE 1
            r == RandomValues(probe.seed, k * n)
        IN  /\ probe.g.calls = k * n
            /\ \A i \in 1..n :
                 probe.g.buf[i] =
                    IF probe.type = "MIXED"
                    THEN IF r[2 * i - 1] % 2 = 1
                         THEN 97 + (r[2 * i] % 26)
                         ELSE 48 + (r[2 * i] % 10)
                    ELSE LET cs == IndexedCharset(probe.type) IN
                         cs[(r[i] % Len(cs)) + 1]

C23_Witness ==
    /\ probe.op = "generate_password"
    /\ probe.type = "MIXED"
    /\ probe.length = MAX_PASSWORD_LENGTH
    /\ ~probe.g.faulted
    /\ probe.g.calls = 2 * MAX_PASSWORD_LENGTH
    /\ \E i, j \in 1..MAX_PASSWORD_LENGTH :
         /\ probe.g.buf[i] \in LowerLetters
         /\ probe.g.buf[j] \in Digits


(***************************************************************************)
(* C24                                                                     *)
(***************************************************************************)
\* C24: the destination the client sends to is the server address resolved
\* at startup, whatever it has received and from whomever: the address it
\* holds is the server's in every state, and every request datagram of the
\* client in flight is addressed to the server.
C24_DestinationFixed ==
    /\ server_address = ServerAddr
    /\ \A d \in net_req : d.src = ClientAddr => d.dst = ServerAddr


(***************************************************************************)
(* C21                                                                     *)
(***************************************************************************)
\* C21: the client never has more than one request outstanding.  The
\* requests it has sent are as many as the datagrams it has received, or one
\* more; they are one more exactly while it waits in receive_response (or
\* after it has terminated on a failed receive), and as many whenever it is
\* about to prompt or to send: sends and receives alternate, a send first.
C21_Alternation ==
    /\ c_sent - c_received \in {0, 1}
    /\ c_pc = "receive" => c_sent = c_received + 1
    /\ c_pc \in {"input", "send", "exit_success"} => c_sent = c_received

C21_Witness ==
    /\ c_pc = "receive"
    /\ c_sent = 2
    /\ c_received = 1
    /\ c_shown.shown


(***************************************************************************)
(* C25                                                                     *)
(***************************************************************************)
\* the request the last display followed is one the client accepts
ShownValid ==
    /\ c_shown.shown
    /\ c_shown.type \in TypeCodes
    /\ DenotesIn(c_shown.length, MIN_PASSWORD_LENGTH, MAX_PASSWORD_LENGTH)

\* the record displayed is the password field of a response the server sent
\* the client for the request logged as e
DisplayedResponseTo(e) ==
    /\ e.src = ClientAddr
    /\ e.answered
    /\ e.dst = ClientAddr
    /\ e.password = response_msg

\* the record displayed is the server's response to a request of the type
\* and length of the request the display followed
DisplayedResponseToShown ==
    \E i \in 1..Len(s_log) :
         /\ DisplayedResponseTo(s_log[i])
         /\ s_log[i].type = c_shown.type
         /\ s_log[i].length = c_shown.length

\* the record displayed answers the request the display followed: it is the
\* server's response to a request of that type and length, and a password of
\* that length
DisplayedAnswersShown ==
    /\ displayed.defined
    /\ Len(displayed.text) = ShownLength
    /\ DisplayedResponseToShown

\* C25: over a channel that may duplicate or delay datagrams, the password
\* the client displays after sending a valid request is the response the
\* server generated for that request: it has the length of the request just
\* sent and is the server's answer to a request of that type and length,
\* never a duplicated or late response to an earlier, different request.
C25_DisplayedAnswersRequest == ShownValid => DisplayedAnswersShown

\* C25, amended: what the client displays is always the password field of a
\* response the server sent it for one of its requests; as long as the
\* channel has duplicated no datagram, it is the response to the request
\* just sent and has its length.
C25_DisplayedIsAResponse ==
    /\ c_shown.shown => \E i \in 1..Len(s_log) : DisplayedResponseTo(s_log[i])
    /\ (c_shown.shown /\ net_dup = 0) => DisplayedResponseToShown
    /\ (ShownValid /\ net_dup = 0) => DisplayedAnswersShown

\* a duplicate of the response to "n 10" displayed after a request "m 32"
C25_Witness ==
    /\ net_dup > 0
    /\ c_sent = 2
    /\ c_received = 2
    /\ ShownValid
    /\ c_shown.type = 109
    /\ c_shown.length = <<51, 50>>
    /\ displayed.defined
    /\ Len(displayed.text) = 10


(***************************************************************************)
(* C22                                                                     *)
(***************************************************************************)
\* neither process has stopped on a failed socket call or died
Running ==
    /\ s_pc \in {"receive", "send"}
    /\ c_pc # "exit_failure"

\* the client waits in receive_response for the answer to its k-th request
Waiting(k) == c_sent = k /\ c_pc = "receive"

\* the client has displayed what it received after its k-th request
Displayed(k) == c_received = k /\ c_shown.shown /\ c_pc # "receive"

=============================================================================
